---------------------------- MODULE Spec2Model ----------------------------
(***************************************************************************)
(* A model of the AI training dataset generator                            *)
(* (src/ai_dataset_generator.py, src/config.py).                           *)
(*                                                                         *)
(* These parts of the program are modelled:                                *)
(*   - the generation pipeline, AIDatasetGenerator.generate_dataset with   *)
(*     generate_training_pair, generate_scenario and generate_response:    *)
(*     a sequential process whose only suspension points are the calls of  *)
(*     agent.run (specifications Spec, SpecLive and SpecSchedule);         *)
(*   - the construction of the knowledge base,                             *)
(*     AIDatasetGenerator._create_knowledge_base (specification SpecKB),   *)
(*     and the constructor around it (specification SpecGenerator);        *)
(*   - _save_dataset, the last step of generate_dataset (SpecWriter);      *)
(*   - DatasetConfig.__post_init__ (SpecConfig);                           *)
(*   - KnowledgeBaseProcessor._clean_text (SpecNormalizer);                *)
(*   - the chunker of the knowledge store (SpecChunker).                   *)
(*                                                                         *)
(* Texts are modelled as tuples of their parts: the f-string               *)
(* f"{a}\n\nQUESTION: {b}" is the tuple <<a, "QUESTION:", b>>.  The         *)
(* datetime.now() stamps of the records are left out: no property below    *)
(* reads them; the stamp of _save_dataset is modelled.                     *)
(***************************************************************************)
EXTENDS Integers, Sequences, FiniteSets, TLC

(***************************************************************************)
(* Bounds of the model.                                                    *)
(***************************************************************************)
\* largest config.num_scenarios of the pipeline specifications
MaxScenarios == 3
\* longest explicit scenario_types argument
MaxOverride == 3
\* largest config.num_scenarios of the schedule specification
MaxTotal == 60
\* most files that exist, and most entries of config.knowledge_sources
MaxFiles == 3
MaxSources == 2

(***************************************************************************)
(* Values of the configuration that the pipeline copies into its output    *)
(* (src/config.py, DatasetConfig).                                         *)
(***************************************************************************)
DomainName == "Medical Compliance"
ModelName == "gpt-4o-mini"
TaskDescription == "compliance assessment based on standard operating procedures"
ScenarioPromptTemplate == "default scenario prompt"
UserQueryTemplate == "default user query"

\* The labels an explicit scenario_types argument is drawn from: one label of
\* the default mix and one label of the caller's own.
OverrideLabels == {"edge_case", "custom"}

\* What agent.run can return as response.content.
ScenarioTexts == {"s1", "s2"}
ResponseTexts == {"r1", "r2"}

\* Markers of the history of agent calls.
Pending == "PENDING"
Failed == "FAILED"
NoText == ""

VARIABLES
    num_scenarios,          \* config.num_scenarios
    include_raw_scenarios,  \* config.include_raw_scenarios
    override,               \* the scenario_types argument: [given, types]
    pc,                     \* position of generate_dataset
    scenario_types,         \* local of generate_dataset after defaulting
    i,                      \* loop index of generate_dataset (1-based slot)
    scenario_type,          \* parameter of generate_training_pair
    scenario_content,       \* local of generate_training_pair
    dataset,                \* local of generate_dataset
    raw_scenarios,          \* local of generate_dataset
    inflight,               \* calls of agent.run that have not returned
    agent_calls,            \* history of the calls of agent.run
    log,                    \* the failure lines printed
    writes,                 \* calls of _save_dataset
    knowledge_sources,      \* config.knowledge_sources
    knowledge_type,         \* config.knowledge_type
    fs,                     \* the files that exist
    kb_pc,                  \* position of _create_knowledge_base
    knowledge_files,        \* local of _create_knowledge_base
    knowledge_base,         \* the store returned: [kind, sources]
    api_key_set,            \* an OpenAI key is given or in the environment
    agent,                  \* self.agent
    chunk_size,             \* config.chunk_size
    chunk_overlap,          \* config.chunk_overlap
    output_format,          \* config.output_format
    output_prefix,          \* config.output_prefix
    written,                \* the files written by _save_dataset, in order
    chunk_text,             \* the text given to the chunker
    chunks,                 \* the chunks it returns
    chunk_pc,               \* position of the chunker
    raw_text,               \* the argument of _clean_text
    cleaned,                \* what _clean_text returns
    norm_pc,                \* position of the call of _clean_text
    raw_config,             \* the arguments of DatasetConfig(...)
    config,                 \* the DatasetConfig after __post_init__
    cfg_pc                  \* position of the construction of the config

pipeVars == <<num_scenarios, include_raw_scenarios, override, pc, scenario_types,
              i, scenario_type, scenario_content, dataset, raw_scenarios,
              inflight, agent_calls, log, writes>>
kbVars == <<knowledge_sources, knowledge_type, fs, kb_pc, knowledge_files,
            knowledge_base>>
genVars == <<api_key_set, agent, chunk_size, chunk_overlap>>
writerVars == <<output_format, output_prefix, written>>
chunkerVars == <<chunk_text, chunks, chunk_pc>>
normVars == <<raw_text, cleaned, norm_pc>>
cfgVars == <<raw_config, config, cfg_pc>>
libVars == <<chunkerVars, normVars, cfgVars>>
vars == <<num_scenarios, include_raw_scenarios, override, pc, scenario_types,
          i, scenario_type, scenario_content, dataset, raw_scenarios,
          inflight, agent_calls, log, writes, knowledge_sources,
          knowledge_type, fs, kb_pc, knowledge_files, knowledge_base,
          api_key_set, agent, chunk_size, chunk_overlap, output_format,
          output_prefix, written, chunk_text, chunks, chunk_pc, raw_text, cleaned,
          norm_pc, raw_config, config, cfg_pc>>

(***************************************************************************)
(* Helpers.                                                                *)
(***************************************************************************)
Min(a, b) == IF a <= b THEN a ELSE b

\* [label] * n
Rep(label, n) == [k \in 1..n |-> label]

\* All sequences over S of length at most n.
SeqsUpTo(S, n) == UNION {[1..k -> S] : k \in 0..n}

(***************************************************************************)
(* The scenario schedule.                                                  *)
(***************************************************************************)
\* A schedule that forgets the remainder slots.
DefaultSchedule_NoRemainder(total) ==
    Rep("basic", total \div 3) \o Rep("complex", total \div 3)
        \o Rep("edge_case", total \div 3)

\* The default mix of generate_dataset.
DefaultSchedule(total) ==
    Rep("basic", total \div 3) \o Rep("complex", total \div 3)
        \o Rep("edge_case", total \div 3) \o Rep("general", total % 3)

\* A loop that runs num_scenarios times and wraps around a short list.
Slots_Wrap(types, n) ==
    IF Len(types) = 0 THEN << >>
    ELSE [k \in 1..n |-> types[((k - 1) % Len(types)) + 1]]

\* A loop over the whole list, without the slice.
Slots_NoCut(types, n) == types

\* scenario_types[:num_scenarios], for num_scenarios >= 0.
Slots(types, n) == SubSeq(types, 1, Min(Len(types), n))

(***************************************************************************)
(* Prompts and records.                                                    *)
(***************************************************************************)
\* The prompt of generate_scenario.
ScenarioPrompt(type) ==
    <<ScenarioPromptTemplate, "Create a", type, "scenario for", TaskDescription>>

\* The prompt of generate_response.
ResponsePrompt(scenario) ==
    <<"SCENARIO:", scenario, "QUESTION:", UserQueryTemplate>>

\* A pair labelled with the default of the scenario_type parameter.
TrainingPair_DefaultType(type, scenario, response) ==
    [user |-> <<scenario, "QUESTION:", UserQueryTemplate>>,
     assistant |-> response,
     scenario_type |-> "general",
     domain |-> DomainName,
     model |-> ModelName]

\* The training_pair dictionary of generate_training_pair.
TrainingPair(type, scenario, response) ==
    [user |-> <<scenario, "QUESTION:", UserQueryTemplate>>,
     assistant |-> response,
     scenario_type |-> type,
     domain |-> DomainName,
     model |-> ModelName]

\* A record numbered by enumerate(...) without its start of 1.
RawRecord_ZeroBased(id, type, pair) ==
    [id |-> id - 1,
     type |-> type,
     scenario |-> pair.user,
     response |-> pair.assistant,
     metadata |-> [scenario_type |-> pair.scenario_type,
                   domain |-> pair.domain,
                   model |-> pair.model]]

\* The record appended to raw_scenarios.
RawRecord(id, type, pair) ==
    [id |-> id,
     type |-> type,
     scenario |-> pair.user,
     response |-> pair.assistant,
     metadata |-> [scenario_type |-> pair.scenario_type,
                   domain |-> pair.domain,
                   model |-> pair.model]]

\* dataset.insert(0, training_pair)
AppendPair_Front(ds, pair) == <<pair>> \o ds

\* dataset.append(training_pair)
AppendPair(ds, pair) == Append(ds, pair)

(***************************************************************************)
(* The history of agent calls.                                             *)
(***************************************************************************)
Call(slot, prompt) == [slot |-> slot, prompt |-> prompt, result |-> Pending]

\* The pending call of the slot returns with result.
Returned(calls, slot, result) ==
    [k \in DOMAIN calls |->
        IF calls[k].slot = slot /\ calls[k].result = Pending
        THEN [calls[k] EXCEPT !.result = result]
        ELSE calls[k]]

Request(slot, prompt) == [slot |-> slot, prompt |-> prompt]

(***************************************************************************)
(* generate_dataset.                                                       *)
(***************************************************************************)
InitPipeline ==
    /\ num_scenarios \in 0..MaxScenarios
    /\ include_raw_scenarios \in BOOLEAN
    /\ override \in
          {[given |-> FALSE, types |-> << >>]}
          \cup {[given |-> TRUE, types |-> t] : t \in SeqsUpTo(OverrideLabels, MaxOverride)}
    /\ pc = "start"
    /\ scenario_types = << >>
    /\ i = 0
    /\ scenario_type = NoText
    /\ scenario_content = NoText
    /\ dataset = << >>
    /\ raw_scenarios = << >>
    /\ inflight = {}
    /\ agent_calls = << >>
    /\ log = << >>
    /\ writes = << >>

\* Entry of generate_dataset up to the head of the loop.
GenerateDataset ==
    /\ pc = "start"
    /\ scenario_types' = IF override.given THEN override.types
                         ELSE DefaultSchedule(num_scenarios)
    /\ dataset' = << >>
    /\ raw_scenarios' = << >>
    /\ i' = 0
    /\ pc' = "loop"
    /\ UNCHANGED <<num_scenarios, include_raw_scenarios, override, scenario_type,
                   scenario_content, inflight, agent_calls, log, writes>>
    /\ UNCHANGED <<kbVars, genVars, writerVars, libVars>>

\* A loop that starts the next slot while the agent still works on this one.
AtLoopHead_Eager == pc \in {"loop", "gen_scenario", "gen_response"}

\* The loop head is reached when generate_training_pair has returned.
AtLoopHead == pc = "loop"

\* The next iteration: generate_training_pair calls generate_scenario, which
\* calls agent.run.
NextSlot ==
    /\ AtLoopHead
    /\ i < Len(Slots(scenario_types, num_scenarios))
    /\ i' = i + 1
    /\ scenario_type' = Slots(scenario_types, num_scenarios)[i + 1]
    /\ inflight' = inflight \cup {Request(i + 1, ScenarioPrompt(scenario_type'))}
    /\ agent_calls' = Append(agent_calls, Call(i + 1, ScenarioPrompt(scenario_type')))
    /\ pc' = "gen_scenario"
    /\ UNCHANGED <<num_scenarios, include_raw_scenarios, override, scenario_types,
                   scenario_content, dataset, raw_scenarios, log, writes>>
    /\ UNCHANGED <<kbVars, genVars, writerVars, libVars>>

\* agent.run raises in generate_scenario and the exception leaves the run.
ScenarioFails_Abort ==
    /\ pc = "gen_scenario"
    /\ inflight' = inflight \ {Request(i, ScenarioPrompt(scenario_type))}
    /\ agent_calls' = Returned(agent_calls, i, Failed)
    /\ pc' = "aborted"
    /\ UNCHANGED <<num_scenarios, include_raw_scenarios, override, scenario_types,
                   i, scenario_type, scenario_content, dataset, raw_scenarios,
                   log, writes>>
    /\ UNCHANGED <<kbVars, genVars, writerVars, libVars>>

\* agent.run raises in generate_scenario and the request is sent again.
ScenarioFails_Retry ==
    /\ pc = "gen_scenario"
    /\ Len(agent_calls) < 2 * MaxScenarios + 2
    /\ agent_calls' = Append(Returned(agent_calls, i, Failed),
                             Call(i, ScenarioPrompt(scenario_type)))
    /\ log' = Append(log, <<"Error generating scenario", i>>)
    /\ UNCHANGED <<num_scenarios, include_raw_scenarios, override, pc,
                   scenario_types, i, scenario_type, scenario_content, dataset,
                   raw_scenarios, inflight, writes>>
    /\ UNCHANGED <<kbVars, genVars, writerVars, libVars>>

\* agent.run raises in generate_scenario: generate_scenario and
\* generate_training_pair return None, the loop prints the failure.
ScenarioFails ==
    /\ pc = "gen_scenario"
    /\ inflight' = inflight \ {Request(i, ScenarioPrompt(scenario_type))}
    /\ agent_calls' = Returned(agent_calls, i, Failed)
    /\ log' = log \o <<<<"Error generating scenario", i>>,
                       <<"Failed to generate pair", i>>>>
    /\ pc' = "loop"
    /\ UNCHANGED <<num_scenarios, include_raw_scenarios, override, scenario_types,
                   i, scenario_type, scenario_content, dataset, raw_scenarios,
                   writes>>
    /\ UNCHANGED <<kbVars, genVars, writerVars, libVars>>

\* agent.run returns in generate_scenario: generate_training_pair calls
\* generate_response with the content, which calls agent.run.
ScenarioSucceeds ==
    /\ pc = "gen_scenario"
    /\ \E text \in ScenarioTexts :
          /\ scenario_content' = text
          /\ inflight' = (inflight \ {Request(i, ScenarioPrompt(scenario_type))})
                            \cup {Request(i, ResponsePrompt(text))}
          /\ agent_calls' = Append(Returned(agent_calls, i, text),
                                   Call(i, ResponsePrompt(text)))
    /\ pc' = "gen_response"
    /\ UNCHANGED <<num_scenarios, include_raw_scenarios, override, scenario_types,
                   i, scenario_type, dataset, raw_scenarios, log, writes>>
    /\ UNCHANGED <<kbVars, genVars, writerVars, libVars>>

\* agent.run raises in generate_response and a pair without answer is kept.
ResponseFails_KeepsPair ==
    /\ pc = "gen_response"
    /\ inflight' = inflight \ {Request(i, ResponsePrompt(scenario_content))}
    /\ agent_calls' = Returned(agent_calls, i, Failed)
    /\ log' = Append(log, <<"Error generating response", i>>)
    /\ dataset' = AppendPair(dataset, TrainingPair(scenario_type, scenario_content, NoText))
    /\ scenario_content' = NoText
    /\ pc' = "loop"
    /\ UNCHANGED <<num_scenarios, include_raw_scenarios, override, scenario_types,
                   i, scenario_type, raw_scenarios, writes>>
    /\ UNCHANGED <<kbVars, genVars, writerVars, libVars>>

\* agent.run raises in generate_response: generate_response and
\* generate_training_pair return None, the loop prints the failure.
ResponseFails ==
    /\ pc = "gen_response"
    /\ inflight' = inflight \ {Request(i, ResponsePrompt(scenario_content))}
    /\ agent_calls' = Returned(agent_calls, i, Failed)
    /\ log' = log \o <<<<"Error generating response", i>>,
                       <<"Failed to generate pair", i>>>>
    /\ scenario_content' = NoText
    /\ pc' = "loop"
    /\ UNCHANGED <<num_scenarios, include_raw_scenarios, override, scenario_types,
                   i, scenario_type, dataset, raw_scenarios, writes>>
    /\ UNCHANGED <<kbVars, genVars, writerVars, libVars>>

\* agent.run returns in generate_response: the pair is assembled and
\* appended, with its raw record if configured.
ResponseSucceeds ==
    /\ pc = "gen_response"
    /\ \E text \in ResponseTexts :
          LET pair == TrainingPair(scenario_type, scenario_content, text) IN
          /\ agent_calls' = Returned(agent_calls, i, text)
          /\ dataset' = AppendPair(dataset, pair)
          /\ raw_scenarios' = IF include_raw_scenarios
                              THEN Append(raw_scenarios, RawRecord(i, scenario_type, pair))
                              ELSE raw_scenarios
    /\ inflight' = inflight \ {Request(i, ResponsePrompt(scenario_content))}
    /\ scenario_content' = NoText
    /\ pc' = "loop"
    /\ UNCHANGED <<num_scenarios, include_raw_scenarios, override, scenario_types,
                   i, scenario_type, log, writes>>
    /\ UNCHANGED <<kbVars, genVars, writerVars, libVars>>

(***************************************************************************)
(* _save_dataset.                                                          *)
(*                                                                         *)
(* A file name is the tuple of the parts of its f-string, and the stamp    *)
(* datetime.now().strftime("%Y%m%d_%H%M%S") the tuple <<date, "_", time>>. *)
(* A file written is [name, layout, items]: "lines" is one json.dumps per  *)
(* line, "array" and "object" are one json.dump of the whole value.        *)
(***************************************************************************)
\* The values of config.output_format of the model: the two documented
\* ones, one in capitals and one that is neither.
OutputFormats == {"jsonl", "JSONL", "json", "csv"}
OutputPrefixes == {"training_dataset", "run"}

\* The readings of the clock at the call of _save_dataset.
Clock == {[date |-> "20240131", time |-> "235959"],
          [date |-> "20240201", time |-> "000000"]}

\* str.lower() on the output formats and domain names of the model
Lower(str) ==
    CASE str = "JSONL" -> "jsonl"
      [] str = "Medical Compliance" -> "medical compliance"
      [] str = "Legal" -> "legal"
      [] OTHER -> str

\* now.strftime("%Y%m%d_%H%M%S")
Strftime(now) == <<now.date, "_", now.time>>

\* asdict(self.config), for the fields of the model
ConfigSnapshot ==
    [domain_name |-> DomainName,
     knowledge_sources |-> knowledge_sources,
     knowledge_type |-> knowledge_type,
     chunk_size |-> chunk_size,
     chunk_overlap |-> chunk_overlap,
     num_scenarios |-> num_scenarios,
     output_format |-> output_format,
     include_raw_scenarios |-> include_raw_scenarios,
     model_name |-> ModelName,
     output_prefix |-> output_prefix]

WrittenFile(name, layout, items) == [name |-> name, layout |-> layout, items |-> items]

\* A jsonl writer that opens the file anew for every pair.
DatasetFile_LastLine(ds, timestamp) ==
    IF Lower(output_format) = "jsonl"
    THEN WrittenFile(<<output_prefix, "_">> \o timestamp \o <<".jsonl">>, "lines",
                     IF ds = << >> THEN ds ELSE <<ds[Len(ds)]>>)
    ELSE WrittenFile(<<output_prefix, "_">> \o timestamp \o <<".json">>, "array", ds)

\* "Save main training dataset"
DatasetFile(ds, timestamp) ==
    IF Lower(output_format) = "jsonl"
    THEN WrittenFile(<<output_prefix, "_">> \o timestamp \o <<".jsonl">>, "lines", ds)
    ELSE WrittenFile(<<output_prefix, "_">> \o timestamp \o <<".json">>, "array", ds)

\* "Save raw scenarios if requested"
RawFiles(raw, timestamp) ==
    IF include_raw_scenarios /\ raw # << >>
    THEN <<WrittenFile(<<output_prefix, "_raw_scenarios_">> \o timestamp \o <<".json">>,
                       "array", raw)>>
    ELSE << >>

\* "Save configuration"
ConfigFile(timestamp) ==
    WrittenFile(<<"config", "_">> \o timestamp \o <<".json">>, "object", <<ConfigSnapshot>>)

\* _save_dataset(dataset, raw_scenarios) at the clock reading now
SaveDataset(ds, raw, now) ==
    LET timestamp == Strftime(now)
    IN <<DatasetFile(ds, timestamp)>> \o RawFiles(raw, timestamp)
          \o <<ConfigFile(timestamp)>>

\* The loop is exhausted: _save_dataset is called and the dataset returned.
Finish ==
    /\ pc = "loop"
    /\ i >= Len(Slots(scenario_types, num_scenarios))
    /\ writes' = Append(writes, [dataset |-> dataset, raw_scenarios |-> raw_scenarios])
    /\ \E now \in Clock : written' = written \o SaveDataset(dataset, raw_scenarios, now)
    /\ pc' = "done"
    /\ UNCHANGED <<num_scenarios, include_raw_scenarios, override, scenario_types,
                   i, scenario_type, scenario_content, dataset, raw_scenarios,
                   inflight, agent_calls, log>>
    /\ UNCHANGED <<kbVars, genVars, output_format, output_prefix, libVars>>

(***************************************************************************)
(* _create_knowledge_base.                                                 *)
(*                                                                         *)
(* A path is [name, ext]: str(path).endswith('.pdf') is ext = "pdf".  All  *)
(* files live in the one directory KbDir, so that a file can be named      *)
(* directly and be found by the directory's glob as well.                  *)
(***************************************************************************)
File(name, ext) == [name |-> name, ext |-> ext]
KbDir == File("kb", "")
AllFiles == {File("a", "pdf"), File("b", "pdf"), File("c", "md"),
             File("d", "markdown"), File("e", "txt"), File("f", "csv")}
KnowledgeTypes == {"pdf", "markdown", "text", "auto"}

\* Path.is_file() and Path.is_dir()
IsFile(p) == p \in fs
IsDir(p) == p = KbDir

\* The orders in which the directory can list the files of S.
Listings(S) ==
    {l \in [1..Cardinality(S) -> S] : \A m, n \in DOMAIN l : m # n => l[m] # l[n]}

\* source_path.glob('*.' + ext), in the order of the directory listing
Glob(listing, ext) == SelectSeq(listing, LAMBDA f : f.ext = ext)

\* The loop that collects knowledge_files.
RECURSIVE CollectFiles(_, _)
CollectFiles(sources, listing) ==
    IF sources = << >> THEN << >>
    ELSE LET source_path == Head(sources)
             found == IF IsFile(source_path) THEN <<source_path>>
                      ELSE IF IsDir(source_path)
                           THEN Glob(listing, "md") \o Glob(listing, "pdf")
                                   \o Glob(listing, "txt")
                           ELSE << >>
         IN found \o CollectFiles(Tail(sources), listing)

PdfFiles(files) == SelectSeq(files, LAMBDA f : f.ext = "pdf")
MarkdownFiles(files) == SelectSeq(files, LAMBDA f : f.ext \in {"md", "markdown"})
TextFiles(files) == SelectSeq(files, LAMBDA f : f.ext = "txt")

\* PDFKnowledgeBase(sources=..., chunk_size=..., chunk_overlap=...) and
\* MarkdownKnowledgeBase(...)
Store(class, group, sources) ==
    [kind |-> class, group |-> group, sources |-> sources,
     chunk_size |-> chunk_size, chunk_overlap |-> chunk_overlap]
\* self.knowledge_base before it is assigned
NoStore ==
    [kind |-> "none", group |-> "none", sources |-> << >>,
     chunk_size |-> 0, chunk_overlap |-> 0]

\* A store that prefers pdf whatever config.knowledge_type says.
SelectKnowledgeBase_IgnoresType(files, ktype) ==
    IF PdfFiles(files) # << >>
    THEN Store("PDFKnowledgeBase", "pdf", PdfFiles(files))
    ELSE IF MarkdownFiles(files) # << >>
         THEN Store("MarkdownKnowledgeBase", "markdown", MarkdownFiles(files))
         ELSE Store("MarkdownKnowledgeBase", "text", files)

\* A store that merges the pdf and the markdown files.
SelectKnowledgeBase_Merge(files, ktype) ==
    IF PdfFiles(files) # << >> /\ ktype \in {"pdf", "auto"}
    THEN Store("PDFKnowledgeBase", "pdf", PdfFiles(files) \o MarkdownFiles(files))
    ELSE IF MarkdownFiles(files) # << >>
         THEN Store("MarkdownKnowledgeBase", "markdown", MarkdownFiles(files))
         ELSE Store("MarkdownKnowledgeBase", "text", files)

\* The if / elif / else that creates the knowledge base.
SelectKnowledgeBase(files, ktype) ==
    IF PdfFiles(files) # << >> /\ ktype \in {"pdf", "auto"}
    THEN Store("PDFKnowledgeBase", "pdf", PdfFiles(files))
    ELSE IF MarkdownFiles(files) # << >>
         THEN Store("MarkdownKnowledgeBase", "markdown", MarkdownFiles(files))
         ELSE Store("MarkdownKnowledgeBase", "text", files)

\* The values of the fields of DatasetConfig that a specification leaves at
\* their defaults.
DefaultChunkSize == 1000
DefaultChunkOverlap == 100

\* The generator is constructed: the key was found and the agent created.
GenReady ==
    /\ api_key_set = TRUE
    /\ agent = "created"
    /\ chunk_size = DefaultChunkSize
    /\ chunk_overlap = DefaultChunkOverlap

\* _create_knowledge_base on its own: no agent yet.
GenIdle ==
    /\ api_key_set = TRUE
    /\ agent = "none"
    /\ chunk_size = DefaultChunkSize
    /\ chunk_overlap = DefaultChunkOverlap

WriterDefaults ==
    /\ output_format = "jsonl"
    /\ output_prefix = "training_dataset"
    /\ written = << >>

ChunkerIdle ==
    /\ chunk_text = << >>
    /\ chunks = << >>
    /\ chunk_pc = "idle"

NormalizerIdle ==
    /\ raw_text = << >>
    /\ cleaned = << >>
    /\ norm_pc = "idle"

ConfigIdle ==
    /\ raw_config = << >>
    /\ config = << >>
    /\ cfg_pc = "idle"

LibIdle == ChunkerIdle /\ NormalizerIdle /\ ConfigIdle

PipelineIdle ==
    /\ num_scenarios = 0
    /\ include_raw_scenarios = TRUE
    /\ override = [given |-> FALSE, types |-> << >>]
    /\ pc = "constructing"
    /\ scenario_types = << >>
    /\ i = 0
    /\ scenario_type = NoText
    /\ scenario_content = NoText
    /\ dataset = << >>
    /\ raw_scenarios = << >>
    /\ inflight = {}
    /\ agent_calls = << >>
    /\ log = << >>
    /\ writes = << >>

InitKB ==
    /\ PipelineIdle
    /\ fs \in {S \in SUBSET AllFiles : Cardinality(S) <= MaxFiles}
    /\ knowledge_sources \in SeqsUpTo(AllFiles \cup {KbDir}, MaxSources)
    /\ knowledge_type \in KnowledgeTypes
    /\ kb_pc = "start"
    /\ knowledge_files = << >>
    /\ knowledge_base = NoStore
    /\ GenIdle
    /\ WriterDefaults
    /\ LibIdle

\* A resolver that never finds the corpus missing.
NoKnowledgeFiles_Unchecked(found) == FALSE

\* if not knowledge_files
NoKnowledgeFiles(found) == found = << >>

\* The body of _create_knowledge_base, from its first line to its return or
\* raise.
KnowledgeBaseCreated ==
    /\ kb_pc = "start"
    /\ \E listing \in Listings(fs) :
          knowledge_files' = CollectFiles(knowledge_sources, listing)
    /\ IF NoKnowledgeFiles(knowledge_files')
       THEN /\ kb_pc' = "ValueError"
            /\ knowledge_base' = NoStore
       ELSE /\ kb_pc' = "built"
            /\ knowledge_base' = SelectKnowledgeBase(knowledge_files', knowledge_type)
    /\ UNCHANGED <<knowledge_sources, knowledge_type, fs>>

\* _create_knowledge_base called on its own.
CreateKnowledgeBase ==
    /\ KnowledgeBaseCreated
    /\ UNCHANGED <<pipeVars, genVars, writerVars, libVars>>

NextKB == CreateKnowledgeBase

SpecKB == InitKB /\ [][NextKB]_vars

(***************************************************************************)
(* The knowledge base is not part of the pipeline specifications: it is    *)
(* built before generate_dataset can be called.                            *)
(***************************************************************************)
KBIdle ==
    /\ knowledge_sources = << >>
    /\ knowledge_type = "markdown"
    /\ fs = {}
    /\ kb_pc = "built"
    /\ knowledge_files = << >>
    /\ knowledge_base = NoStore

Init == InitPipeline /\ KBIdle /\ GenReady /\ WriterDefaults /\ LibIdle

Next ==
    \/ GenerateDataset
    \/ NextSlot
    \/ ScenarioFails
    \/ ScenarioSucceeds
    \/ ResponseFails
    \/ ResponseSucceeds
    \/ Finish

Spec == Init /\ [][Next]_vars

\* Every call of agent.run returns and the interpreter runs the sequential
\* code on: each step that is possible is eventually taken.
SpecLive == Init /\ [][Next]_vars /\ WF_vars(Next)

(***************************************************************************)
(* The generator from its construction on: AIDatasetGenerator(config)      *)
(* and then generate_dataset().  The agno framework is taken as installed. *)
(***************************************************************************)
\* largest chunk_size of the specifications that vary the chunking
MaxChunk == 2

GenFiles == {File("a", "pdf"), File("c", "md"), File("f", "csv")}

InitGenerator ==
    /\ num_scenarios \in 0..1
    /\ include_raw_scenarios = TRUE
    /\ override = [given |-> FALSE, types |-> << >>]
    /\ pc = "constructing"
    /\ scenario_types = << >>
    /\ i = 0
    /\ scenario_type = NoText
    /\ scenario_content = NoText
    /\ dataset = << >>
    /\ raw_scenarios = << >>
    /\ inflight = {}
    /\ agent_calls = << >>
    /\ log = << >>
    /\ writes = << >>
    /\ fs \in SUBSET GenFiles
    /\ knowledge_sources \in SeqsUpTo(GenFiles \cup {KbDir}, 1)
    /\ knowledge_type \in KnowledgeTypes
    /\ kb_pc = "start"
    /\ knowledge_files = << >>
    /\ knowledge_base = NoStore
    /\ api_key_set \in BOOLEAN
    /\ agent = "none"
    /\ chunk_size \in 1..MaxChunk
    /\ chunk_overlap \in (-1)..MaxChunk
    /\ WriterDefaults
    /\ LibIdle

\* __init__: the key, the knowledge base, the agent.
Construct ==
    /\ pc = "constructing"
    /\ IF ~api_key_set
       THEN /\ pc' = "ValueError"
            /\ UNCHANGED <<kbVars, agent>>
       ELSE /\ KnowledgeBaseCreated
            /\ IF kb_pc' = "ValueError"
               THEN pc' = "ValueError" /\ agent' = agent
               ELSE pc' = "start" /\ agent' = "created"
    /\ UNCHANGED <<num_scenarios, include_raw_scenarios, override, scenario_types,
                   i, scenario_type, scenario_content, dataset, raw_scenarios,
                   inflight, agent_calls, log, writes>>
    /\ UNCHANGED <<api_key_set, chunk_size, chunk_overlap, writerVars, libVars>>

NextGenerator == Construct \/ Next

SpecGenerator == InitGenerator /\ [][NextGenerator]_vars

(***************************************************************************)
(* C11: when the configured sources resolve to no file (none of them is an *)
(* existing file, and none is a directory with a .md, .pdf or .txt file),  *)
(* construction ends in an error with no store and no agent made, no agent *)
(* request is ever issued and no file written; and a generator that is     *)
(* constructed has a store with a source.                                  *)
(***************************************************************************)
EmptyCorpus ==
    \A n \in DOMAIN knowledge_sources :
        /\ knowledge_sources[n] \notin fs
        /\ knowledge_sources[n] = KbDir =>
              \A f \in fs : f.ext \notin {"md", "pdf", "txt"}

C11_EmptyCorpusFailsFast ==
    /\ (EmptyCorpus /\ api_key_set) =>
          /\ pc \in {"constructing", "ValueError"}
          /\ pc = "ValueError" => kb_pc = "ValueError"
          /\ knowledge_base = NoStore
          /\ agent = "none"
          /\ agent_calls = << >>
          /\ inflight = {}
          /\ written = << >>
    /\ pc \notin {"constructing", "ValueError"} =>
          /\ agent = "created"
          /\ knowledge_base.sources # << >>

\* The directory holds a .csv file alone: nothing for the three globs.
C11_Witness ==
    /\ pc = "ValueError"
    /\ kb_pc = "ValueError"
    /\ api_key_set
    /\ knowledge_sources = <<KbDir>>
    /\ fs = {File("f", "csv")}

(***************************************************************************)
(* C13: no knowledge store is made with chunk_overlap >= chunk_size or     *)
(* with chunk_overlap < 0: such a configuration is rejected before.        *)
(***************************************************************************)
C13_ChunkConfigRejected ==
    knowledge_base.kind # "none" =>
        /\ 0 <= knowledge_base.chunk_overlap
        /\ knowledge_base.chunk_overlap < knowledge_base.chunk_size

(***************************************************************************)
(* What the history of agent calls says about the slots.                   *)
(***************************************************************************)
IsScenarioCall(c) == c.prompt[1] = ScenarioPromptTemplate
IsResponseCall(c) == c.prompt[1] = "SCENARIO:"
IsText(r) == r \notin {Pending, Failed}

CallsOf(k) == {n \in DOMAIN agent_calls : agent_calls[n].slot = k}
ScenarioCallsOf(k) == {n \in CallsOf(k) : IsScenarioCall(agent_calls[n])}
ResponseCallsOf(k) == {n \in CallsOf(k) : IsResponseCall(agent_calls[n])}

ScenarioFailedAt(k) == \E n \in ScenarioCallsOf(k) : agent_calls[n].result = Failed
ResponseFailedAt(k) == \E n \in ResponseCallsOf(k) : agent_calls[n].result = Failed
SlotSucceeded(k) ==
    /\ \E n \in ScenarioCallsOf(k) : IsText(agent_calls[n].result)
    /\ \E n \in ResponseCallsOf(k) : IsText(agent_calls[n].result)
SlotFailed(k) == ScenarioFailedAt(k) \/ ResponseFailedAt(k)

\* The text the scenario request, and the response request, of slot k returned.
ScenarioOf(k) ==
    agent_calls[CHOOSE n \in ScenarioCallsOf(k) : IsText(agent_calls[n].result)].result
ResponseOf(k) ==
    agent_calls[CHOOSE n \in ResponseCallsOf(k) : IsText(agent_calls[n].result)].result

\* The slots both of whose requests succeeded, in slot order.
SucceededSlots == SelectSeq([k \in 1..i |-> k], LAMBDA k : SlotSucceeded(k))

\* The number of slots of the run.
NumSlots == Min(Len(scenario_types), num_scenarios)

\* The pair the claims expect of a succeeded slot.
ExpectedPair(k) ==
    [user |-> <<ScenarioOf(k), "QUESTION:", UserQueryTemplate>>,
     assistant |-> ResponseOf(k),
     scenario_type |-> scenario_types[k],
     domain |-> DomainName,
     model |-> ModelName]

(***************************************************************************)
(* C1: the dataset is exactly the sequence of the pairs of the slots whose *)
(* scenario request and response request both succeeded, in slot order: a  *)
(* failed slot removes its own pair and nothing else.  This holds while    *)
(* the dataset is built and so of the dataset returned at "done".          *)
(***************************************************************************)
C1_DatasetIsSucceededSlotsInOrder ==
    /\ Len(dataset) = Len(SucceededSlots)
    /\ \A n \in 1..Len(SucceededSlots) : dataset[n] = ExpectedPair(SucceededSlots[n])

\* Three slots, the second fails, the pairs of slots 1 and 3 differ.
C1_Witness ==
    /\ pc = "done"
    /\ i = 3
    /\ SlotFailed(2)
    /\ SucceededSlots = <<1, 3>>
    /\ Len(dataset) = 2
    /\ dataset[1] # dataset[2]

(***************************************************************************)
(* C2: every pair of the dataset is built from one slot: its user turn is  *)
(* the text the slot's scenario request returned followed by the question  *)
(* of user_query_template, its assistant turn is the text returned by the  *)
(* response request that was issued with that scenario, its category is    *)
(* the one scheduled for the slot, domain and model are the config's.      *)
(***************************************************************************)
C2_PairBuiltFromOneSlot ==
    \A n \in 1..Len(dataset) :
        \E k \in 1..i :
            \E sc \in ScenarioCallsOf(k), rc \in ResponseCallsOf(k) :
                /\ n <= Len(SucceededSlots) /\ SucceededSlots[n] = k
                /\ agent_calls[sc].prompt = ScenarioPrompt(scenario_types[k])
                /\ IsText(agent_calls[sc].result)
                /\ agent_calls[rc].prompt = ResponsePrompt(agent_calls[sc].result)
                /\ IsText(agent_calls[rc].result)
                /\ dataset[n].user = <<agent_calls[sc].result, "QUESTION:", UserQueryTemplate>>
                /\ dataset[n].assistant = agent_calls[rc].result
                /\ dataset[n].scenario_type = scenario_types[k]
                /\ dataset[n].domain = DomainName
                /\ dataset[n].model = ModelName

\* Two pairs of different categories, scenarios and responses.
C2_Witness ==
    /\ Len(dataset) = 2
    /\ dataset[1].scenario_type # dataset[2].scenario_type
    /\ dataset[1].user # dataset[2].user
    /\ dataset[1].assistant # dataset[2].assistant

(***************************************************************************)
(* C3: when the scenario request of a slot fails, the failure is recorded, *)
(* no request is issued (no response request, no second scenario request), *)
(* the dataset and the raw records stay as they are, and the pipeline is   *)
(* at the loop head, from where the next request is the scenario request   *)
(* of the next slot; no slot ever has two scenario requests, and a slot    *)
(* whose scenario request failed has no response request.                  *)
(***************************************************************************)
ScenarioFailureStep ==
    /\ pc = "gen_scenario"
    /\ \E n \in DOMAIN agent_calls :
          /\ IsScenarioCall(agent_calls[n])
          /\ agent_calls[n].result = Pending
          /\ agent_calls'[n].result = Failed

NextRequestIsNextSlot ==
    (pc = "loop" /\ Len(agent_calls') > Len(agent_calls)) =>
        /\ Len(agent_calls') = Len(agent_calls) + 1
        /\ agent_calls'[Len(agent_calls')] =
              Call(i + 1, ScenarioPrompt(scenario_types[i + 1]))

C3_ScenarioFailureSkipsSlot ==
    /\ [][ScenarioFailureStep =>
            /\ Len(log') > Len(log)
            /\ log'[Len(log) + 1] = <<"Error generating scenario", i>>
            /\ Len(agent_calls') = Len(agent_calls)
            /\ inflight' = {}
            /\ dataset' = dataset
            /\ raw_scenarios' = raw_scenarios
            /\ i' = i
            /\ pc' = "loop"]_vars
    /\ [][NextRequestIsNextSlot]_vars
    /\ [](\A k \in 1..i :
            /\ Cardinality(ScenarioCallsOf(k)) <= 1
            /\ ScenarioFailedAt(k) => ResponseCallsOf(k) = {})

\* The scenario request of slot 1 failed and slot 2 went on to a pair.
C3_Witness ==
    /\ ScenarioFailedAt(1)
    /\ SlotSucceeded(2)
    /\ Len(dataset) = 1
    /\ Len(log) = 2

(***************************************************************************)
(* C4: when the scenario request of a slot succeeds and its response       *)
(* request fails, the scenario is dropped, the dataset and the raw records *)
(* stay as they are, no request is issued (the response request is not     *)
(* sent again), and the pipeline is at the loop head; no slot ever has two *)
(* response requests.                                                      *)
(***************************************************************************)
ResponseFailureStep ==
    /\ pc = "gen_response"
    /\ \E n \in DOMAIN agent_calls :
          /\ IsResponseCall(agent_calls[n])
          /\ agent_calls[n].result = Pending
          /\ agent_calls'[n].result = Failed

C4_ResponseFailureSkipsSlot ==
    /\ [][ResponseFailureStep =>
            /\ Len(agent_calls') = Len(agent_calls)
            /\ inflight' = {}
            /\ dataset' = dataset
            /\ raw_scenarios' = raw_scenarios
            /\ scenario_content' = NoText
            /\ i' = i
            /\ pc' = "loop"]_vars
    /\ [](\A k \in 1..i :
            /\ Cardinality(ResponseCallsOf(k)) <= 1
            /\ ResponseFailedAt(k) =>
                  \A n \in 1..Len(raw_scenarios) : raw_scenarios[n].id # k)
    /\ [](Len(dataset) = Cardinality({k \in 1..i : SlotSucceeded(k)}))

\* The response request of slot 1 failed after its scenario succeeded, and
\* slot 2 went on to a pair with its raw record.
C4_Witness ==
    /\ ResponseFailedAt(1)
    /\ \E n \in ScenarioCallsOf(1) : IsText(agent_calls[n].result)
    /\ SlotSucceeded(2)
    /\ Len(dataset) = 1
    /\ Len(raw_scenarios) = 1

(***************************************************************************)
(* C5: when every agent call returns, generate_dataset reaches "done"      *)
(* whatever the failures; by then every slot of the schedule has had its   *)
(* scenario request, and _save_dataset has been called once, at "done",    *)
(* with the final dataset.                                                 *)
(***************************************************************************)
C5_RunCompletes ==
    /\ <>(pc = "done")
    /\ [](pc = "done" =>
            /\ i = NumSlots
            /\ \A k \in 1..NumSlots : Cardinality(ScenarioCallsOf(k)) = 1
            /\ \A n \in DOMAIN agent_calls : agent_calls[n].result # Pending
            /\ Len(writes) = 1
            /\ writes[1].dataset = dataset)
    /\ [](pc # "done" => writes = << >>)

\* A run all of whose slots failed, and a run without slots.
C5_Witness ==
    /\ pc = "done"
    /\ Len(writes) = 1
    /\ writes[1].dataset = << >>
    /\ num_scenarios = 0 \/ (NumSlots >= 2 /\ \A k \in 1..NumSlots : SlotFailed(k))

(***************************************************************************)
(* C6: generation is sequential: at most one agent request is in flight;   *)
(* a response request in flight belongs to a slot whose scenario request   *)
(* has returned a text, and carries that text; a scenario request in       *)
(* flight for slot k means every earlier slot has been assembled into the  *)
(* dataset or skipped.                                                     *)
(***************************************************************************)
C6_StrictlySequential ==
    /\ Cardinality(inflight) <= 1
    /\ Cardinality({n \in DOMAIN agent_calls : agent_calls[n].result = Pending}) <= 1
    /\ \A n \in DOMAIN agent_calls :
          LET c == agent_calls[n] IN
          /\ IsResponseCall(c) =>
                \E m \in 1..(n - 1) :
                    /\ agent_calls[m].slot = c.slot
                    /\ IsScenarioCall(agent_calls[m])
                    /\ IsText(agent_calls[m].result)
                    /\ c.prompt = ResponsePrompt(agent_calls[m].result)
          /\ IsScenarioCall(c) =>
                \A k \in 1..(c.slot - 1) :
                    /\ \A m \in CallsOf(k) : m < n /\ agent_calls[m].result # Pending
                    /\ SlotSucceeded(k) \/ SlotFailed(k)
                    /\ (c.result = Pending) =>
                          Len(dataset) + Cardinality({j \in 1..(c.slot - 1) : SlotFailed(j)})
                              = c.slot - 1

\* The scenario request of slot 3 is in flight after one pair and one skip.
C6_Witness ==
    /\ pc = "gen_scenario"
    /\ i = 3
    /\ Cardinality(inflight) = 1
    /\ Len(dataset) = 1
    /\ Cardinality({j \in 1..2 : SlotFailed(j)}) = 1

(***************************************************************************)
(* C8: with an explicit category sequence shorter than num_scenarios, the  *)
(* slots attempted are those of the sequence, in its order: the loop index *)
(* never passes its end, the run ends at "done" with one scenario request  *)
(* per category of the sequence and at most that many pairs.               *)
(***************************************************************************)
C8_ShortOverride ==
    (override.given /\ Len(override.types) < num_scenarios) =>
        /\ i <= Len(override.types)
        /\ pc \in {"start", "loop", "gen_scenario", "gen_response", "done"}
        /\ \A n \in DOMAIN agent_calls :
              /\ agent_calls[n].slot \in 1..Len(override.types)
              /\ IsScenarioCall(agent_calls[n]) =>
                    agent_calls[n].prompt = ScenarioPrompt(override.types[agent_calls[n].slot])
        /\ Len(dataset) <= Len(override.types)
        /\ pc = "done" =>
              /\ i = Len(override.types)
              /\ \A k \in 1..Len(override.types) : Cardinality(ScenarioCallsOf(k)) = 1

\* A sequence of two categories with num_scenarios = 3, both slots assembled.
C8_Witness ==
    /\ override.given
    /\ Len(override.types) = 2
    /\ override.types[1] # override.types[2]
    /\ num_scenarios = 3
    /\ pc = "done"
    /\ Len(dataset) = 2

(***************************************************************************)
(* The schedule specification: generate_dataset without an explicit        *)
(* sequence, up to the head of its loop, for every total up to MaxTotal.   *)
(***************************************************************************)
InitSchedule ==
    /\ num_scenarios \in 0..MaxTotal
    /\ include_raw_scenarios \in BOOLEAN
    /\ override = [given |-> FALSE, types |-> << >>]
    /\ pc = "start"
    /\ scenario_types = << >>
    /\ i = 0
    /\ scenario_type = NoText
    /\ scenario_content = NoText
    /\ dataset = << >>
    /\ raw_scenarios = << >>
    /\ inflight = {}
    /\ agent_calls = << >>
    /\ log = << >>
    /\ writes = << >>
    /\ KBIdle
    /\ GenReady
    /\ WriterDefaults
    /\ LibIdle

NextSchedule == GenerateDataset

SpecSchedule == InitSchedule /\ [][NextSchedule]_vars

(***************************************************************************)
(* C7: the default schedule of a run with num_scenarios = total is         *)
(* total \div 3 times "basic", then as many "complex", then as many        *)
(* "edge_case", then total % 3 times "general", and has length total.      *)
(***************************************************************************)
C7_DefaultSchedule ==
    (pc = "loop" /\ ~override.given) =>
        LET total == num_scenarios
            q == total \div 3
        IN /\ Len(scenario_types) = total
           /\ \A k \in 1..Len(scenario_types) :
                 scenario_types[k] =
                    IF k <= q THEN "basic"
                    ELSE IF k <= 2 * q THEN "complex"
                    ELSE IF k <= 3 * q THEN "edge_case"
                    ELSE "general"
           /\ Cardinality({k \in DOMAIN scenario_types : scenario_types[k] = "general"})
                 = total % 3

\* total = 8: two of each of the three categories and two remainder slots.
C7_Witness ==
    /\ pc = "loop"
    /\ num_scenarios = 8
    /\ scenario_types = <<"basic", "basic", "complex", "complex",
                          "edge_case", "edge_case", "general", "general">>

(***************************************************************************)
(* C9: a store that is built is built from one group, chosen by priority:  *)
(* the .pdf files of the resolved corpus, all of them and no other file,   *)
(* if there is one and knowledge_type is "pdf" or "auto"; otherwise the    *)
(* .md and .markdown files, all of them and no other file, if there is     *)
(* one; otherwise every resolved file, as text.                            *)
(***************************************************************************)
Resolved == {knowledge_files[n] : n \in DOMAIN knowledge_files}
ResolvedPdf == {f \in Resolved : f.ext = "pdf"}
ResolvedMarkdown == {f \in Resolved : f.ext = "md" \/ f.ext = "markdown"}
StoreSources == {knowledge_base.sources[n] : n \in DOMAIN knowledge_base.sources}

C9_GroupByPriority ==
    (kb_pc = "built" /\ knowledge_files # << >>) =>
        IF ResolvedPdf # {} /\ knowledge_type \in {"pdf", "auto"}
        THEN knowledge_base.group = "pdf" /\ StoreSources = ResolvedPdf
        ELSE IF ResolvedMarkdown # {}
             THEN knowledge_base.group = "markdown" /\ StoreSources = ResolvedMarkdown
             ELSE /\ knowledge_base.group = "text"
                  /\ knowledge_base.sources = knowledge_files

\* A pdf and a markdown file with knowledge_type "markdown": the markdown
\* group, though a pdf file exists.
C9_Witness ==
    /\ kb_pc = "built"
    /\ ResolvedPdf # {}
    /\ ResolvedMarkdown # {}
    /\ knowledge_type = "markdown"
    /\ knowledge_base.group = "markdown"
    /\ StoreSources = ResolvedMarkdown

(***************************************************************************)
(* C10: when the resolved corpus holds a .pdf and a .md file and           *)
(* knowledge_type is "auto" or "pdf", every source of the store is a pdf   *)
(* file: no markdown file and no text file is among them.                  *)
(***************************************************************************)
C10_PdfExcludesMarkdown ==
    (/\ kb_pc = "built"
     /\ ResolvedPdf # {}
     /\ \E f \in Resolved : f.ext = "md"
     /\ knowledge_type \in {"auto", "pdf"}) =>
        /\ knowledge_base.sources # << >>
        /\ \A n \in DOMAIN knowledge_base.sources : knowledge_base.sources[n].ext = "pdf"
        /\ StoreSources \cap ResolvedMarkdown = {}

\* The directory holds a pdf, a markdown and a text file, knowledge_type is
\* "auto", and the store holds the pdf file alone.
C10_Witness ==
    /\ kb_pc = "built"
    /\ knowledge_type = "auto"
    /\ knowledge_sources = <<KbDir>>
    /\ Cardinality(ResolvedPdf) = 1
    /\ \E f \in Resolved : f.ext = "md"
    /\ \E f \in Resolved : f.ext = "txt"
    /\ StoreSources = ResolvedPdf

(***************************************************************************)
(* C12: the list of files handed to the knowledge store holds each         *)
(* resolved file at most once, also when config.knowledge_sources names a  *)
(* file twice, the directory twice, or the directory and a file in it.     *)
(***************************************************************************)
C12_SourcesDeduplicated ==
    kb_pc = "built" =>
        \A m, n \in DOMAIN knowledge_base.sources :
            m # n => knowledge_base.sources[m] # knowledge_base.sources[n]

(***************************************************************************)
(* The chunker.  The generator only hands chunk_size and chunk_overlap to  *)
(* the knowledge base classes (_create_knowledge_base, lines 117-138); the *)
(* segmentation itself is not in src/, so it is modelled from section 4.3  *)
(* of the specification: a window of size characters slides across the     *)
(* text, advancing by size - overlap, until the window reaches the end of  *)
(* the text; the final chunk may be shorter; empty text gives no chunk;    *)
(* size > overlap >= 0 or the call fails with InvalidChunkConfig.          *)
(***************************************************************************)
\* Longest text handed to the chunker, and widest window.
MaxTextLen == 6
MaxWindow == 3

Characters == {"a", "b"}

CeilDiv(a, b) == (a + b - 1) \div b

ValidChunkConfig(size, overlap) == 0 <= overlap /\ overlap < size

\* The chunk that the window at start cuts out of text.
Window(text, size, overlap, start, k) ==
    [sequence_index |-> k,
     start_offset |-> start,
     text |-> SubSeq(text, start + 1, Min(start + size, Len(text))),
     overlap_with_previous |-> IF k = 0 THEN 0 ELSE overlap]

\* Slide the window by step until it reaches the end of the text.
RECURSIVE ChunksFrom(_, _, _, _, _, _)
ChunksFrom(text, size, overlap, step, start, k) ==
    IF start + size < Len(text)
    THEN <<Window(text, size, overlap, start, k)>>
         \o ChunksFrom(text, size, overlap, step, start + step, k + 1)
    ELSE <<Window(text, size, overlap, start, k)>>

\* A chunker that drops a final chunk shorter than the window.
Chunk_DropsShortTail(text, size, overlap) ==
    IF text = << >> THEN << >>
    ELSE SelectSeq(ChunksFrom(text, size, overlap, size - overlap, 0, 0),
                   LAMBDA c : Len(c.text) = size)

\* A chunker that advances by the whole window, ignoring the overlap.
Chunk_NoOverlap(text, size, overlap) ==
    IF text = << >> THEN << >>
    ELSE ChunksFrom(text, size, overlap, size, 0, 0)

Chunk(text, size, overlap) ==
    IF text = << >> THEN << >>
    ELSE ChunksFrom(text, size, overlap, size - overlap, 0, 0)

InitChunker ==
    /\ PipelineIdle /\ KBIdle /\ WriterDefaults
    /\ NormalizerIdle /\ ConfigIdle
    /\ api_key_set = TRUE
    /\ agent = "none"
    /\ chunk_size \in 1..MaxWindow
    /\ chunk_overlap \in (-1)..MaxWindow
    /\ chunk_text \in SeqsUpTo(Characters, MaxTextLen)
    /\ chunks = << >>
    /\ chunk_pc = "start"

\* chunk(text, size, overlap)
ChunkCall ==
    /\ chunk_pc = "start"
    /\ IF ValidChunkConfig(chunk_size, chunk_overlap)
       THEN /\ chunks' = Chunk(chunk_text, chunk_size, chunk_overlap)
            /\ chunk_pc' = "done"
       ELSE /\ chunks' = << >>
            /\ chunk_pc' = "InvalidChunkConfig"
    /\ UNCHANGED <<pipeVars, kbVars, genVars, writerVars, chunk_text,
                   normVars, cfgVars>>

NextChunker == ChunkCall

SpecChunker == InitChunker /\ [][NextChunker]_vars

ChunkLen == Len(chunk_text)
ChunkStep == chunk_size - chunk_overlap

(***************************************************************************)
(* C14 as stated: for 0 <= overlap < size and a text of length L the       *)
(* chunker returns ceil(max(0, L - overlap) / (size - overlap)) chunks,    *)
(* none for L = 0 and exactly one for a non-empty text with L <= size.     *)
(* The count and the boundary contradict each other for 0 < L <= overlap.  *)
(***************************************************************************)
C14_ChunkCountAsStated ==
    chunk_pc = "done" =>
        /\ Len(chunks) =
               CeilDiv(IF ChunkLen > chunk_overlap
                       THEN ChunkLen - chunk_overlap ELSE 0, ChunkStep)
        /\ ChunkLen = 0 => Len(chunks) = 0
        /\ (0 < ChunkLen /\ ChunkLen <= chunk_size) => Len(chunks) = 1

(***************************************************************************)
(* C14 amended: for 0 <= overlap < size the chunker returns no chunk for   *)
(* L = 0, exactly one chunk for 0 < L <= overlap, and                      *)
(* ceil((L - overlap) / (size - overlap)) chunks for L > overlap; so every *)
(* non-empty text with L <= size gives exactly one chunk.                  *)
(***************************************************************************)
C14_ChunkCount ==
    chunk_pc = "done" =>
        /\ Len(chunks) =
               IF ChunkLen = 0 THEN 0
               ELSE IF ChunkLen <= chunk_overlap THEN 1
               ELSE CeilDiv(ChunkLen - chunk_overlap, ChunkStep)
        /\ (0 < ChunkLen /\ ChunkLen <= chunk_size) => Len(chunks) = 1

\* A text longer than the window with a short final chunk, chunked in three.
C14_Witness ==
    /\ chunk_pc = "done"
    /\ chunk_overlap = 1
    /\ chunk_size = 3
    /\ ChunkLen = 6
    /\ Len(chunks) = 3
    /\ Len(chunks[3].text) < chunk_size

(***************************************************************************)
(* C15: the chunks are in text order, chunk k starts k * (size - overlap)  *)
(* characters into the text and is the text found there, the first chunk   *)
(* has overlap_with_previous = 0, and the last overlap characters of each  *)
(* chunk equal the first overlap characters of the next one, also when the *)
(* next one is the final, shorter chunk.                                   *)
(***************************************************************************)
C15_ChunksOverlapInOrder ==
    chunk_pc = "done" =>
        /\ \A k \in DOMAIN chunks :
              /\ chunks[k].sequence_index = k - 1
              /\ chunks[k].start_offset = (k - 1) * ChunkStep
              /\ Len(chunks[k].text) >= 1
              /\ chunks[k].start_offset + Len(chunks[k].text) <= ChunkLen
              /\ \A j \in 1..Len(chunks[k].text) :
                    chunks[k].text[j] = chunk_text[chunks[k].start_offset + j]
        /\ chunks # << >> => chunks[1].overlap_with_previous = 0
        /\ \A k \in 1..(Len(chunks) - 1) :
              /\ Len(chunks[k].text) >= chunk_overlap
              /\ Len(chunks[k + 1].text) >= chunk_overlap
              /\ \A j \in 1..chunk_overlap :
                    chunks[k].text[Len(chunks[k].text) - chunk_overlap + j]
                        = chunks[k + 1].text[j]

\* Two overlapping chunks of a text with different characters, the second
\* one shorter than the window.
C15_Witness ==
    /\ chunk_pc = "done"
    /\ chunk_size = 3
    /\ chunk_overlap = 2
    /\ chunk_text = <<"a", "b", "a", "b", "b">>
    /\ Len(chunks) = 3
    /\ chunks[3].text = <<"a", "b", "b">>

(***************************************************************************)
(* The text normalizer, KnowledgeBaseProcessor._clean_text.                *)
(* Line 77 of knowledge_base_utils.py reads  text.replace(''', "'")  : the *)
(* three quotes open a triple-quoted string that is never closed, so the   *)
(* module does not compile and every import of it raises SyntaxError.      *)
(* The statements of the body that do parse are modelled as written.       *)
(***************************************************************************)
\* Longest text handed to _clean_text.
MaxRawLen == 4

Newline == "\n"
Space == " "
Tab == "\t"
LigatureFi == "<U+FB01>"
LigatureFl == "<U+FB02>"

TextChars == {Newline, Space, Tab, "a", LigatureFi}

\* \s of the regular expressions
IsSpace(c) == c \in {Newline, Space, Tab}

\* python -m py_compile knowledge_base_utils.py
ModuleCompiles == FALSE

\* Last position of the whitespace run that holds position p.
RECURSIVE SpaceRunEnd(_, _)
SpaceRunEnd(t, p) ==
    IF p < Len(t) /\ IsSpace(t[p + 1]) THEN SpaceRunEnd(t, p + 1) ELSE p

\* Where the greedy match of \n\s*\n that starts at p ends, 0 for no match.
BlankMatchEnd(t, p) ==
    LET ends == {q \in (p + 1)..SpaceRunEnd(t, p) : t[q] = Newline}
    IN  IF t[p] = Newline /\ ends # {}
        THEN CHOOSE q \in ends : \A r \in ends : r <= q
        ELSE 0

\* re.sub(r'\n\s*\n', '\n\n', text), from position p on
RECURSIVE CollapseBlankLines(_, _)
CollapseBlankLines(t, p) ==
    IF p > Len(t) THEN << >>
    ELSE IF BlankMatchEnd(t, p) # 0
         THEN <<Newline, Newline>> \o CollapseBlankLines(t, BlankMatchEnd(t, p) + 1)
         ELSE <<t[p]>> \o CollapseBlankLines(t, p + 1)

\* re.sub(r' +', ' ', text), from position p on
RECURSIVE CollapseSpaces(_, _)
CollapseSpaces(t, p) ==
    IF p > Len(t) THEN << >>
    ELSE IF t[p] = Space /\ p > 1 /\ t[p - 1] = Space
         THEN CollapseSpaces(t, p + 1)
         ELSE <<t[p]>> \o CollapseSpaces(t, p + 1)

\* text.replace(ligature fi, 'fi'), text.replace(ligature fl, 'fl')
RECURSIVE ReplaceLigatures(_)
ReplaceLigatures(t) ==
    IF t = << >> THEN << >>
    ELSE (IF Head(t) = LigatureFi THEN <<"f", "i">>
          ELSE IF Head(t) = LigatureFl THEN <<"f", "l">>
          ELSE <<Head(t)>>) \o ReplaceLigatures(Tail(t))

\* text.strip()
RECURSIVE LStrip(_)
LStrip(t) ==
    IF t # << >> /\ IsSpace(Head(t)) THEN LStrip(Tail(t)) ELSE t

RECURSIVE RStrip(_)
RStrip(t) ==
    IF t # << >> /\ IsSpace(t[Len(t)])
    THEN RStrip(SubSeq(t, 1, Len(t) - 1)) ELSE t

Strip(t) == RStrip(LStrip(t))

\* The statements of _clean_text that parse: lines 71, 72, 75, 76 and 81.
CleanText(t) ==
    Strip(ReplaceLigatures(CollapseSpaces(CollapseBlankLines(t, 1), 1)))

InitNormalizer ==
    /\ PipelineIdle /\ KBIdle /\ GenIdle /\ WriterDefaults
    /\ ChunkerIdle /\ ConfigIdle
    /\ raw_text \in SeqsUpTo(TextChars, MaxRawLen)
    /\ cleaned = << >>
    /\ norm_pc = "start"

\* processor._clean_text(text)
CleanTextCall ==
    /\ norm_pc = "start"
    /\ IF ModuleCompiles
       THEN /\ cleaned' = CleanText(raw_text)
            /\ norm_pc' = "returned"
       ELSE /\ cleaned' = cleaned
            /\ norm_pc' = "SyntaxError"
    /\ UNCHANGED <<pipeVars, kbVars, genVars, writerVars, chunkerVars,
                   raw_text, cfgVars>>

NextNormalizer == CleanTextCall

SpecNormalizer == InitNormalizer /\ [][NextNormalizer]_vars

(***************************************************************************)
(* C16: _clean_text returns for every input, and normalizing what it       *)
(* returned once more (blank-line collapse, space-run collapse, ligature   *)
(* and quote replacement, strip) leaves the text as it is.                 *)
(***************************************************************************)
C16_NormalizeIdempotent ==
    norm_pc # "start" =>
        /\ norm_pc = "returned"
        /\ CleanText(cleaned) = cleaned

\* Position p starts a line that is empty or holds only whitespace.
BlankLineAt(t, p) ==
    /\ p \in DOMAIN t
    /\ p = 1 \/ t[p - 1] = Newline
    /\ \E q \in p..Len(t) :
          /\ t[q] = Newline
          /\ \A r \in p..(q - 1) : IsSpace(t[r]) /\ t[r] # Newline

\* The position after the line that starts at p.
NextLine(t, p) ==
    1 + CHOOSE q \in p..Len(t) :
            t[q] = Newline /\ \A r \in p..(q - 1) : t[r] # Newline

(***************************************************************************)
(* C17: _clean_text returns for every input a text in which no two blank   *)
(* (empty or whitespace-only) lines are adjacent and which neither starts  *)
(* nor ends with whitespace.                                               *)
(***************************************************************************)
C17_NoConsecutiveBlankLines ==
    norm_pc # "start" =>
        /\ norm_pc = "returned"
        /\ \A p \in DOMAIN cleaned :
              BlankLineAt(cleaned, p) =>
                  ~BlankLineAt(cleaned, NextLine(cleaned, p))
        /\ cleaned # << >> =>
              ~IsSpace(cleaned[1]) /\ ~IsSpace(cleaned[Len(cleaned)])

(***************************************************************************)
(* Configuration finalization, DatasetConfig.__post_init__ (src/config.py).*)
(* An optional field is a record: None has set = FALSE; a supplied value   *)
(* has set = TRUE and the value, a text being the tuple of its parts (the  *)
(* empty string is the empty tuple).  Two configurations are constructed,  *)
(* one after the other, so that their defaults can be compared.            *)
(***************************************************************************)
None == [set |-> FALSE, value |-> << >>]
Some(v) == [set |-> TRUE, value |-> v]

Domains == {DomainName, "Legal"}
ExpertRoles == {"Compliance Officer", "Attorney"}
TaskDescriptions == {TaskDescription, "contract review"}
SourceChoices == {None, Some(<<"docs/">>)}
SystemTemplates == {None, Some(<< >>), Some(<<"custom system prompt">>)}
ScenarioTemplates == {None, Some(<<"custom scenario prompt">>)}
UserTemplates == {None, Some(<< >>)}

TemplateFields ==
    {"system_prompt_template", "scenario_prompt_template", "user_query_template"}

\* The arguments of DatasetConfig(...).
RawConfigs ==
    [domain_name : Domains,
     expert_role : ExpertRoles,
     task_description : TaskDescriptions,
     knowledge_sources : SourceChoices,
     system_prompt_template : SystemTemplates,
     scenario_prompt_template : ScenarioTemplates,
     user_query_template : UserTemplates]

\* _default_system_prompt
DefaultSystemPrompt(self) ==
    <<"You are an expert ", self.expert_role,
      " with deep knowledge of industry standards, regulations, and best practices in ",
      Lower(self.domain_name), ". Your role is to ...">>

\* _default_scenario_prompt
DefaultScenarioPrompt(self) ==
    <<"Generate realistic, detailed scenarios for ", self.task_description,
      ". Each scenario should: - Be based on real-world situations in ",
      Lower(self.domain_name), " ...">>

\* _default_user_query
DefaultUserQuery(self) ==
    <<"Based on the provided standards and procedures, what is your assessment of this scenario? ...">>

\* `if not self.x:` instead of `if self.x is None:`
IsNone_Falsy(v) == ~v.set \/ v.value = << >>

\* self.x is None
IsNone(v) == ~v.set

\* __post_init__
PostInit(self) ==
    [self EXCEPT
        !.knowledge_sources =
            IF IsNone(@) THEN Some(<<"knowledge_base/">>) ELSE @,
        !.system_prompt_template =
            IF IsNone(@) THEN Some(DefaultSystemPrompt(self)) ELSE @,
        !.scenario_prompt_template =
            IF IsNone(@) THEN Some(DefaultScenarioPrompt(self)) ELSE @,
        !.user_query_template =
            IF IsNone(@) THEN Some(DefaultUserQuery(self)) ELSE @]

InitConfig ==
    /\ PipelineIdle /\ KBIdle /\ GenIdle /\ WriterDefaults
    /\ ChunkerIdle /\ NormalizerIdle
    /\ raw_config \in [1..2 -> RawConfigs]
    /\ config = << >>
    /\ cfg_pc = "start"

\* DatasetConfig(...): the generated __init__ stores the arguments and
\* calls __post_init__.
NewDatasetConfig ==
    /\ cfg_pc = "start"
    /\ config' = Append(config, PostInit(raw_config[Len(config) + 1]))
    /\ cfg_pc' = IF Len(config') = Len(raw_config) THEN "done" ELSE "start"
    /\ UNCHANGED <<pipeVars, kbVars, genVars, writerVars, chunkerVars,
                   normVars, raw_config>>

NextConfig == NewDatasetConfig

SpecConfig == InitConfig /\ [][NextConfig]_vars

SameIdentity(a, b) ==
    /\ a.domain_name = b.domain_name
    /\ a.expert_role = b.expert_role
    /\ a.task_description = b.task_description

(***************************************************************************)
(* C18: after finalization a template that was unset holds a default, and  *)
(* two configurations that agree on domain_name, expert_role and           *)
(* task_description hold the same default whatever their other fields; a   *)
(* template the caller supplied (the empty one included) is kept; unset    *)
(* knowledge_sources become ["knowledge_base/"], supplied ones are kept.   *)
(***************************************************************************)
C18_DefaultsAtFinalization ==
    \A k \in DOMAIN config :
        /\ \A t \in TemplateFields :
              /\ raw_config[k][t].set => config[k][t] = raw_config[k][t]
              /\ ~raw_config[k][t].set => config[k][t].set
              /\ \A m \in DOMAIN config :
                    (/\ ~raw_config[k][t].set
                     /\ ~raw_config[m][t].set
                     /\ SameIdentity(raw_config[k], raw_config[m]))
                        => config[k][t] = config[m][t]
        /\ raw_config[k].knowledge_sources.set
              => config[k].knowledge_sources = raw_config[k].knowledge_sources
        /\ ~raw_config[k].knowledge_sources.set
              => config[k].knowledge_sources = [set |-> TRUE, value |-> <<"knowledge_base/">>]

\* Two finalized configurations with the same identity and different
\* sources: one supplied the empty system prompt, both left the scenario
\* prompt unset.
C18_Witness ==
    /\ cfg_pc = "done"
    /\ SameIdentity(raw_config[1], raw_config[2])
    /\ raw_config[1].knowledge_sources # raw_config[2].knowledge_sources
    /\ raw_config[1].system_prompt_template = [set |-> TRUE, value |-> << >>]
    /\ config[1].system_prompt_template.value = << >>
    /\ ~raw_config[2].system_prompt_template.set
    /\ ~raw_config[1].scenario_prompt_template.set
    /\ ~raw_config[2].scenario_prompt_template.set
    /\ config[1].scenario_prompt_template.set
    /\ config[2].knowledge_sources.value = <<"knowledge_base/">>

(***************************************************************************)
(* generate_dataset with the output configuration varied: output_format    *)
(* and output_prefix are whatever the caller put into the DatasetConfig.   *)
(***************************************************************************)
InitWriter ==
    /\ num_scenarios \in 0..MaxScenarios
    /\ include_raw_scenarios \in BOOLEAN
    /\ override = [given |-> FALSE, types |-> << >>]
    /\ pc = "start"
    /\ scenario_types = << >>
    /\ i = 0
    /\ scenario_type = NoText
    /\ scenario_content = NoText
    /\ dataset = << >>
    /\ raw_scenarios = << >>
    /\ inflight = {}
    /\ agent_calls = << >>
    /\ log = << >>
    /\ writes = << >>
    /\ KBIdle /\ GenReady /\ LibIdle
    /\ output_format \in OutputFormats
    /\ output_prefix \in OutputPrefixes
    /\ written = << >>

SpecWriter == InitWriter /\ [][Next]_vars

\* The timestamps a run can read off the clock.
Timestamps == {<<now.date, "_", now.time>> : now \in Clock}

\* The file name holds the parts of ts, in a row.
EmbedsTimestamp(name, ts) ==
    \E j \in 1..(Len(name) - Len(ts) + 1) :
        SubSeq(name, j, j + Len(ts) - 1) = ts

EmbedsPrefix(name) == \E j \in DOMAIN name : name[j] = output_prefix

(***************************************************************************)
(* C19: the name of every file a run writes (dataset, raw scenarios,       *)
(* configuration snapshot) holds the configured output_prefix and the      *)
(* run's YYYYMMDD_HHMMSS timestamp, the same timestamp in all of them.     *)
(***************************************************************************)
C19_NamesEmbedPrefixAndTimestamp ==
    pc = "done" =>
        /\ written # << >>
        /\ \E ts \in Timestamps :
              \A n \in DOMAIN written : EmbedsTimestamp(written[n].name, ts)
        /\ \A n \in DOMAIN written : EmbedsPrefix(written[n].name)

\* The dataset files among the written ones: <prefix>_<timestamp><ext>.
DatasetFilesWritten ==
    {n \in DOMAIN written :
        /\ written[n].name[1] = output_prefix
        /\ written[n].name[2] = "_"}

Extension(name) == name[Len(name)]

RawIds == {raw_scenarios[n].id : n \in DOMAIN raw_scenarios}

\* The raw-scenario files among the written ones.
RawFilesWritten ==
    {n \in DOMAIN written : written[n].name[2] = "_raw_scenarios_"}

(***************************************************************************)
(* C21: with include_raw_scenarios the raw-scenario list is as long as the *)
(* dataset, its k-th record carries the category, the user and assistant   *)
(* content and the metadata of the k-th pair and the 1-based number of the *)
(* slot that produced it, so the ids increase strictly and miss exactly    *)
(* the failed slots; without include_raw_scenarios the list stays empty    *)
(* and no raw-scenario file is written.                                    *)
(***************************************************************************)
C21_RawScenariosMirrorDataset ==
    /\ include_raw_scenarios =>
          /\ Len(raw_scenarios) = Len(dataset)
          /\ \A k \in DOMAIN raw_scenarios :
                /\ raw_scenarios[k].id \in 1..i
                /\ raw_scenarios[k].id = SucceededSlots[k]
                /\ raw_scenarios[k].type = scenario_types[raw_scenarios[k].id]
                /\ raw_scenarios[k].type = dataset[k].scenario_type
                /\ raw_scenarios[k].scenario = dataset[k].user
                /\ raw_scenarios[k].response = dataset[k].assistant
                /\ raw_scenarios[k].metadata =
                      [scenario_type |-> dataset[k].scenario_type,
                       domain |-> dataset[k].domain,
                       model |-> dataset[k].model]
          /\ \A k \in 1..(Len(raw_scenarios) - 1) :
                raw_scenarios[k].id < raw_scenarios[k + 1].id
          /\ pc \in {"loop", "done"} =>
                \A slot \in 1..i : slot \notin RawIds <=> SlotFailed(slot)
    /\ ~include_raw_scenarios =>
          /\ raw_scenarios = << >>
          /\ RawFilesWritten = {}

\* Three slots, the second failed: records 1 and 3, written to the raw file.
C21_Witness ==
    /\ pc = "done"
    /\ include_raw_scenarios
    /\ i = 3
    /\ SlotFailed(2)
    /\ Len(raw_scenarios) = 2
    /\ raw_scenarios[1].id = 1
    /\ raw_scenarios[2].id = 3
    /\ \E n \in RawFilesWritten : written[n].items = raw_scenarios

(***************************************************************************)
(* C22: with an explicit category sequence the slots attempted are the     *)
(* first min(len(sequence), num_scenarios) categories: a longer sequence   *)
(* is cut to its first num_scenarios categories.  Each attempted slot      *)
(* issues exactly one scenario request and at most one response request,   *)
(* so a run issues at most 2 * num_scenarios agent requests and the        *)
(* dataset never holds more than num_scenarios pairs.                      *)
(***************************************************************************)
C22_SlotsCutToNumScenarios ==
    /\ override.given =>
          /\ i <= Min(Len(override.types), num_scenarios)
          /\ pc = "done" => i = Min(Len(override.types), num_scenarios)
          /\ \A k \in 1..i :
                \A n \in ScenarioCallsOf(k) :
                    agent_calls[n].prompt = ScenarioPrompt(override.types[k])
    /\ \A n \in DOMAIN agent_calls : agent_calls[n].slot \in 1..i
    /\ \A k \in 1..i :
          /\ Cardinality(ScenarioCallsOf(k)) = 1
          /\ Cardinality(ResponseCallsOf(k)) <= 1
    /\ i <= num_scenarios
    /\ Len(agent_calls) <= 2 * num_scenarios
    /\ Len(dataset) <= num_scenarios

\* A sequence of three categories with num_scenarios = 2: two slots, four
\* requests, two pairs, the third category never requested.
C22_Witness ==
    /\ override.given
    /\ Len(override.types) = 3
    /\ num_scenarios = 2
    /\ pc = "done"
    /\ i = 2
    /\ Len(agent_calls) = 4
    /\ Len(dataset) = 2

=============================================================================
